---- MODULE Spec2Model ----
(***************************************************************************)
(* Task manager backend: users, session tokens and owner-scoped tasks.     *)
(*                                                                         *)
(* The stores are the two MongoDB collections (users, tasks).  A request   *)
(* is handled by an async function; every `await` on the database is one   *)
(* atomic step of the model, and the code a handler runs between two       *)
(* awaits belongs to the step of the await that follows it.  Up to         *)
(* MaxInFlight requests are in progress at once, each holding the          *)
(* documents it loaded (req.user, task) as private snapshots.              *)
(*                                                                         *)
(* Strings that the code inspects (trim, lowercase, includes('@'),         *)
(* minlength) are sequences of one-character strings.                      *)
(***************************************************************************)
EXTENDS Integers, Sequences, FiniteSets, TLC

VARIABLES
  users,    \* users collection: function from the _id of each stored user to its document
  nUsers,   \* number of user ObjectIds handed out so far
  tasks,    \* tasks collection: function from the _id of each stored task to its document
  nTasks,   \* number of task ObjectIds handed out so far
  now,      \* the server clock, in seconds
  req,      \* per request slot: the handler's position and what it holds in memory
  last,     \* the response sent by the step just taken (NoResp if it sent none)
  issued,   \* history: tokens returned to a client by signup or login
  revoked,  \* history: tokens a successful logout or logoutAll has revoked, and by which
  passwords \* history: per user _id, the password its client last set, as it was sent

vars == <<users, nUsers, tasks, nTasks, now, req, last, issued, revoked, passwords>>

---------------------------------------------------------------------------
\* Bounds of the model

MaxUsers == 2
MaxTasks == 2
MaxInFlight == 2
MaxTicks == 1
MaxVersion == 3

\* Program constants

\* jwt.sign(..., { expiresIn: '7 days' }), in seconds
ExpiresIn == 604800
\* password: { minlength: 6 }
MinPasswordLength == 6

UserIds == 1..MaxUsers
TaskIds == 1..MaxTasks
Slots == 1..MaxInFlight

---------------------------------------------------------------------------
\* Strings

LowerChar(c) ==
  CASE c = "A" -> "a"
    [] c = "B" -> "b"
    [] c = "C" -> "c"
    [] OTHER -> c

\* String.prototype.toLowerCase
ToLower(str) == [i \in 1..Len(str) |-> LowerChar(str[i])]

RECURSIVE TrimStart(_)
TrimStart(str) ==
  IF str # <<>> /\ Head(str) = " " THEN TrimStart(Tail(str)) ELSE str

RECURSIVE TrimEnd(_)
TrimEnd(str) ==
  IF str # <<>> /\ str[Len(str)] = " "
    THEN TrimEnd(SubSeq(str, 1, Len(str) - 1))
    ELSE str

\* String.prototype.trim
Trim(str) == TrimEnd(TrimStart(str))

\* value.includes('@')
IncludesAt(str) == \E i \in 1..Len(str) : str[i] = "@"

\* A body field that is not sent (undefined)
Undefined == <<"undefined">>

\* body[key], Undefined when the key is absent
Field(body, key) == IF key \in DOMAIN body THEN body[key] ELSE Undefined

---------------------------------------------------------------------------
\* Libraries the code calls

\* bcrypt.hash(password, 8): a string that is not the plaintext, and from
\* which bcrypt.compare recognises exactly that plaintext (for passwords of
\* up to 72 bytes, which is what bcrypt reads)
bcryptHash(password) == <<"$2a$08$">> \o password

\* bcrypt.compare(password, hash)
bcryptCompare(password, hash) == hash = bcryptHash(password)

\* jwt.sign({ _id }, JWT_SECRET, { expiresIn: '7 days' }) at second t.  The
\* string is a function of the payload {_id, iat, exp} and the secret alone,
\* so two tokens signed for one user within one second are the same string.
jwtSign(uid, t) == [_id |-> uid, iat |-> t, exp |-> t + ExpiresIn, sig |-> TRUE]

\* jwt.verify(token, JWT_SECRET) at second t: the signature is ours and the
\* token has not expired
jwtVerify(token, t) == token.sig /\ t < token.exp

\* A string that is no token of ours ('invalidtoken', a tampered token)
BadToken == [_id |-> 0, iat |-> 0, exp |-> 0, sig |-> FALSE]

---------------------------------------------------------------------------
\* User model (models/User.js)

UserPaths == {"name", "email", "password", "tokens"}

\* The schema's validators, on the value after its setters
ValidName(name) == name # Undefined /\ name # <<>>
ValidEmail(email) == email # Undefined /\ email # <<>> /\ IncludesAt(email)

\* Mutant: the password path has no minlength
ValidPassword_NoMinLength(password) == password # Undefined /\ password # <<>>

\* required and minlength of the password path
ValidPassword(password) ==
  password # Undefined /\ password # <<>> /\ Len(password) >= MinPasswordLength

\* Mutant: the email path has no lowercase setter
SetUserPath_NoLowercase(path, value) ==
  CASE value = Undefined -> Undefined
    [] path = "tokens" -> value
    [] OTHER -> Trim(value)

\* The schema's setters (trim, lowercase) on a value a client sent for `path`
SetUserPath(path, value) ==
  CASE value = Undefined -> Undefined
    [] path = "email" -> ToLower(Trim(value))
    [] path = "tokens" -> value
    [] OTHER -> Trim(value)

\* new User(req.body)
NewUser(body, id) ==
  [_id |-> id,
   name |-> SetUserPath("name", Field(body, "name")),
   email |-> SetUserPath("email", Field(body, "email")),
   password |-> SetUserPath("password", Field(body, "password")),
   tokens |-> IF "tokens" \in DOMAIN body THEN body.tokens ELSE <<>>,
   __v |-> 0]

\* user.isModified(path) for each path: the in-memory document `doc` against
\* the document as it was loaded, `orig`
ModifiedPaths(orig, doc) == {path \in UserPaths : doc[path] # orig[path]}

\* Document validation (run before the other pre('save') hooks) of the
\* paths in `paths`
UserValid(doc, paths) ==
  /\ "name" \in paths => ValidName(doc.name)
  /\ "email" \in paths => ValidEmail(doc.email)
  /\ "password" \in paths => ValidPassword(doc.password)

\* The unique index on email
EmailTaken(store, email, id) ==
  \E other \in DOMAIN store : other # id /\ store[other].email = email

\* userSchema.pre('save'): hash the password if it was modified
PreSave(doc, paths) ==
  IF "password" \in paths
    THEN [doc EXCEPT !.password = bcryptHash(doc.password)]
    ELSE doc

\* Mutant: the save of tokens carries no version in its filter, so the last
\* writer wins
SaveUserError_NoVersion(store, orig, doc) ==
  LET paths == ModifiedPaths(orig, doc)
      id == orig._id
  IN  CASE ~UserValid(doc, paths) -> "User validation failed"
        [] id \notin DOMAIN store -> "DocumentNotFoundError"
        [] "email" \in paths /\ EmailTaken(store, doc.email, id) -> "E11000 duplicate key"
        [] OTHER -> "none"

\* The error of user.save() for a document that was loaded as `orig` and is
\* now `doc` in memory, "none" if it succeeds.  save() sends the modified
\* paths only.  tokens is an array that the handlers replace as a whole, and
\* for such a write Mongoose's versioning (versionKey __v, which the schema
\* leaves on) adds {__v: the version loaded} to the filter and increments
\* __v; the save fails with a VersionError if no document matches.
SaveUserError(store, orig, doc) ==
  LET paths == ModifiedPaths(orig, doc)
      id == orig._id
  IN  CASE ~UserValid(doc, paths) -> "User validation failed"
        [] "tokens" \in paths /\ (id \notin DOMAIN store \/ store[id].__v # orig.__v)
             -> "VersionError"
        [] id \notin DOMAIN store -> "DocumentNotFoundError"
        [] "email" \in paths /\ EmailTaken(store, doc.email, id) -> "E11000 duplicate key"
        [] OTHER -> "none"

\* The in-memory document after a successful save
SavedDoc(orig, doc) ==
  LET paths == ModifiedPaths(orig, doc)
      hashed == PreSave(doc, paths)
  IN  [hashed EXCEPT !.__v = IF "tokens" \in paths THEN orig.__v + 1 ELSE orig.__v]

\* Mutant: save() replaces the stored document with the one in memory
SaveUser_WholeDocument(store, orig, doc) ==
  [store EXCEPT ![orig._id] = SavedDoc(orig, doc)]

\* The users collection after a successful user.save(): the modified paths
\* are $set on the stored document
SaveUser(store, orig, doc) ==
  LET paths == ModifiedPaths(orig, doc)
      mem == SavedDoc(orig, doc)
      cur == store[orig._id]
  IN  [store EXCEPT ![orig._id] =
         [path \in DOMAIN cur |->
            IF path \in paths THEN mem[path]
            ELSE IF path = "__v" /\ "tokens" \in paths THEN cur.__v + 1
            ELSE cur[path]]]

\* The first save of a new document: an insert
InsertUserError(store, doc) ==
  CASE ~UserValid(doc, UserPaths) -> "User validation failed"
    [] EmailTaken(store, doc.email, doc._id) -> "E11000 duplicate key"
    [] OTHER -> "none"

InsertUser(store, doc) ==
  [id \in DOMAIN store \cup {doc._id} |->
     IF id = doc._id THEN PreSave(doc, UserPaths) ELSE store[id]]

\* Mutant: the document is serialised as it is stored
toJSON_Whole(user) == user

\* userSchema.methods.toJSON
toJSON(user) ==
  [_id |-> user._id, name |-> user.name, email |-> user.email, __v |-> user.__v]

\* Mutant: the token set is replaced by the new token alone
WithToken_Only(user, token) == [user EXCEPT !.tokens = <<token>>]

\* The document generateAuthToken saves: tokens.concat({ token })
WithToken(user, token) == [user EXCEPT !.tokens = Append(user.tokens, token)]

\* User.findOne({ email }); the schema's setters apply to the filter
FindByEmail(store, email) ==
  {id \in DOMAIN store : store[id].email = SetUserPath("email", email)}

\* User.findByCredentials(email, password): the matching users (none or one)
findByCredentials(store, email, password) ==
  {id \in FindByEmail(store, email) : bcryptCompare(password, store[id].password)}

\* Mutant: the user is looked up by the token's _id alone
FindUserWithToken_ByIdOnly(store, token) ==
  {id \in DOMAIN store : id = token._id}

\* User.findOne({ _id: decoded._id, 'tokens.token': token })
FindUserWithToken(store, token) ==
  {id \in DOMAIN store :
     id = token._id /\ \E i \in 1..Len(store[id].tokens) : store[id].tokens[i] = token}

\* The auth middleware lets the request through.  cred is the Authorization
\* header: <<>> if there is none, <<token>> otherwise.
AuthAccepts(store, t, cred) ==
  /\ cred # <<>>
  /\ jwtVerify(cred[1], t)
  /\ FindUserWithToken(store, cred[1]) # {}

---------------------------------------------------------------------------
\* Requests and responses

Idle == [pc |-> "idle"]

\* A request that arrives is handled in the first slot that is free
FreeSlot(s) == req[s] = Idle /\ \A other \in 1..(s - 1) : req[other] # Idle

\* res.status(status).send(body)
Response(route, status, body) == [route |-> route, status |-> status, body |-> body]

\* A response with the parameters of the request it answers beside it: the
\* Authorization header for the 401 of auth, req.body for a refused signup,
\* for PATCH /users/me and for POST /tasks, req.query for GET /tasks,
\* req.params.id (and req.body for PATCH) for the routes on /tasks/:id
ResponseTo(route, params, status, body) ==
  [route |-> route, params |-> params, status |-> status, body |-> body]

NoResp == Response("none", 0, [empty |-> TRUE])

\* res.status(...).send() with no body
NoBody == [empty |-> TRUE]

\* The 401 of the auth middleware
PleaseAuthenticate == [error |-> "Please authenticate"]

\* The version of a stored user stays below MaxVersion: a save that would
\* write tokens (and increment __v) past it is not taken
VersionRoom(store, orig) ==
  orig._id \in DOMAIN store => store[orig._id].__v < MaxVersion

\* A tick of the clock: one second, or the lifetime of a token
Ticks(t) == (t \div ExpiresIn) + (t % ExpiresIn)

Tick ==
  /\ \E d \in {1, ExpiresIn} : Ticks(now + d) <= MaxTicks /\ now' = now + d
  /\ last' = NoResp
  /\ UNCHANGED <<users, nUsers, tasks, nTasks, req, issued, revoked, passwords>>

---------------------------------------------------------------------------
\* routes/auth.js: signup and login

\* The record of the passwords clients have set, after user `id` set one
SetPassword(record, id, password) ==
  [other \in DOMAIN record \cup {id} |-> IF other = id THEN password ELSE record[other]]

\* POST /users/signup, up to the first save: new User(req.body); user.save()
Signup(s, body) ==
  /\ FreeSlot(s)
  /\ nUsers < MaxUsers
  /\ LET user == NewUser(body, nUsers + 1)
         err == InsertUserError(users, user)
     IN  IF err # "none"
           THEN /\ last' = ResponseTo("POST /users/signup", [body |-> body], 400,
                                      [error |-> err])
                /\ UNCHANGED <<users, nUsers, req, passwords>>
           ELSE /\ users' = InsertUser(users, user)
                /\ nUsers' = nUsers + 1
                /\ passwords' = SetPassword(passwords, user._id, body.password)
                /\ req' = [req EXCEPT ![s] =
                             [pc |-> "signup", user |-> PreSave(user, UserPaths)]]
                /\ last' = NoResp
  /\ UNCHANGED <<tasks, nTasks, now, issued, revoked>>

\* POST /users/login, up to the end of User.findByCredentials
Login(s, body) ==
  /\ FreeSlot(s)
  /\ LET found == IF "email" \in DOMAIN body /\ "password" \in DOMAIN body
                    THEN findByCredentials(users, body.email, body.password)
                    ELSE {}
     IN  IF found = {}
           THEN /\ last' = Response("POST /users/login", 400,
                                    [error |-> "Invalid login credentials"])
                /\ UNCHANGED req
           ELSE /\ \E id \in found :
                     req' = [req EXCEPT ![s] = [pc |-> "login", user |-> users[id]]]
                /\ last' = NoResp
  /\ UNCHANGED <<users, nUsers, tasks, nTasks, now, issued, revoked, passwords>>

\* user.generateAuthToken() and the response, for signup (201) and login (200)
generateAuthToken(s) ==
  /\ req[s].pc \in {"signup", "login"}
  /\ LET user == req[s].user
         route == IF req[s].pc = "signup" THEN "POST /users/signup" ELSE "POST /users/login"
         token == jwtSign(user._id, now)
         doc == WithToken(user, token)
         err == SaveUserError(users, user, doc)
     IN  IF err # "none"
           THEN /\ last' = Response(route, 400,
                     [error |-> IF req[s].pc = "signup" THEN err
                                ELSE "Invalid login credentials"])
                /\ UNCHANGED <<users, issued>>
           ELSE /\ VersionRoom(users, user)
                /\ users' = SaveUser(users, user, doc)
                /\ issued' = issued \cup {token}
                /\ last' = Response(route, IF req[s].pc = "signup" THEN 201 ELSE 200,
                                    [user |-> toJSON(SavedDoc(user, doc)), token |-> token])
  /\ req' = [req EXCEPT ![s] = Idle]
  /\ UNCHANGED <<nUsers, tasks, nTasks, now, revoked, passwords>>

---------------------------------------------------------------------------
\* middleware/auth.js

\* The credentials a client can send: none, a string that is no token of
\* ours, or a token the server has returned
Credentials == {<<>>, <<BadToken>>} \cup {<<token>> : token \in issued}

\* Mutant: the 401 carries the message of the error that was caught
AuthReject_TellsCause(s, cred) ==
  /\ FreeSlot(s)
  /\ ~AuthAccepts(users, now, cred)
  /\ last' = ResponseTo("auth", [cred |-> cred], 401,
                        [error |-> CASE cred = <<>> -> "Cannot read properties of undefined"
                                     [] cred # <<>> /\ ~cred[1].sig -> "jwt malformed"
                                     [] cred # <<>> /\ cred[1].sig /\ now >= cred[1].exp
                                          -> "jwt expired"
                                     [] OTHER -> ""])
  /\ UNCHANGED <<users, nUsers, tasks, nTasks, now, req, issued, revoked, passwords>>

\* Mutant: the 401 is sent and next() is called all the same
AuthReject_CallsNext(s, cred) ==
  /\ FreeSlot(s)
  /\ ~AuthAccepts(users, now, cred)
  /\ last' = ResponseTo("auth", [cred |-> cred], 401, PleaseAuthenticate)
  /\ req' = [req EXCEPT ![s] = [pc |-> "authed", user |-> NewUser([name |-> <<"X">>], BadToken._id),
                           token |-> BadToken]]
  /\ UNCHANGED <<users, nUsers, tasks, nTasks, now, issued, revoked, passwords>>

\* auth rejects the request: 401, and the route handler is not called
AuthReject(s, cred) ==
  /\ FreeSlot(s)
  /\ ~AuthAccepts(users, now, cred)
  /\ last' = ResponseTo("auth", [cred |-> cred], 401, PleaseAuthenticate)
  /\ UNCHANGED <<users, nUsers, tasks, nTasks, now, req, issued, revoked, passwords>>

\* auth accepts: req.user and req.token are set and next() is called
AuthPass(s, cred) ==
  /\ FreeSlot(s)
  /\ AuthAccepts(users, now, cred)
  /\ \E id \in FindUserWithToken(users, cred[1]) :
       req' = [req EXCEPT ![s] = [pc |-> "authed", user |-> users[id], token |-> cred[1]]]
  /\ last' = NoResp
  /\ UNCHANGED <<users, nUsers, tasks, nTasks, now, issued, revoked, passwords>>

---------------------------------------------------------------------------
\* routes/auth.js: the protected user routes

\* Mutant: the logout writes an empty token set
WithoutToken_NoneLeft(user, token) == [user EXCEPT !.tokens = <<>>]

\* Mutant: the filter keeps the request's token instead of dropping it
WithoutToken_KeepsToken(user, token) ==
  [user EXCEPT !.tokens = SelectSeq(user.tokens, LAMBDA t : t = token)]

\* req.user.tokens.filter((token) => token.token !== req.token)
WithoutToken(user, token) ==
  [user EXCEPT !.tokens = SelectSeq(user.tokens, LAMBDA t : t # token)]

\* POST /users/logout
Logout(s) ==
  /\ req[s].pc = "authed"
  /\ LET user == req[s].user
         doc == WithoutToken(user, req[s].token)
         err == SaveUserError(users, user, doc)
     IN  IF err # "none"
           THEN /\ last' = Response("POST /users/logout", 500, NoBody)
                /\ UNCHANGED <<users, revoked, passwords>>
           ELSE /\ VersionRoom(users, user)
                /\ users' = SaveUser(users, user, doc)
                /\ revoked' = revoked \cup {[token |-> req[s].token, by |-> "logout"]}
                /\ last' = Response("POST /users/logout", 200,
                                    [message |-> "Logged out successfully"])
  /\ req' = [req EXCEPT ![s] = Idle]
  /\ UNCHANGED <<nUsers, tasks, nTasks, now, issued, passwords>>

\* POST /users/logoutAll
LogoutAll(s) ==
  /\ req[s].pc = "authed"
  /\ LET user == req[s].user
         doc == [user EXCEPT !.tokens = <<>>]
         err == SaveUserError(users, user, doc)
     IN  IF err # "none"
           THEN /\ last' = Response("POST /users/logoutAll", 500, NoBody)
                /\ UNCHANGED <<users, revoked, passwords>>
           ELSE /\ VersionRoom(users, user)
                /\ users' = SaveUser(users, user, doc)
                /\ revoked' = revoked \cup {[token |-> token, by |-> "logoutAll"] :
                                               token \in {t \in issued : t._id = user._id}}
                /\ last' = Response("POST /users/logoutAll", 200,
                                    [message |-> "Logged out from all devices"])
  /\ req' = [req EXCEPT ![s] = Idle]
  /\ UNCHANGED <<nUsers, tasks, nTasks, now, issued, passwords>>

\* GET /users/me
GetMe(s) ==
  /\ req[s].pc = "authed"
  /\ last' = Response("GET /users/me", 200, toJSON(req[s].user))
  /\ req' = [req EXCEPT ![s] = Idle]
  /\ UNCHANGED <<users, nUsers, tasks, nTasks, now, issued, revoked, passwords>>

\* Mutant: a new password ends the user's sessions
ApplyUserUpdates_EndsSessions(user, body) ==
  [path \in DOMAIN user |->
     IF path \in DOMAIN body THEN SetUserPath(path, body[path])
     ELSE IF path = "tokens" /\ "password" \in DOMAIN body THEN <<>>
     ELSE user[path]]

\* req.user[update] = req.body[update] for every key of the body
ApplyUserUpdates(user, body) ==
  [path \in DOMAIN user |->
     IF path \in DOMAIN body THEN SetUserPath(path, body[path]) ELSE user[path]]

\* Mutant: tokens is among the allowed updates
allowedUserUpdates_WithTokens == {"name", "email", "password", "tokens"}

\* const allowedUpdates = ['name', 'email', 'password'] of PATCH /users/me
allowedUserUpdates == {"name", "email", "password"}

\* PATCH /users/me
PatchMe(s, body) ==
  /\ req[s].pc = "authed"
  /\ IF ~(DOMAIN body \subseteq allowedUserUpdates)
       THEN /\ last' = ResponseTo("PATCH /users/me", [body |-> body], 400,
                                  [error |-> "Invalid updates"])
            /\ UNCHANGED <<users, passwords>>
       ELSE LET user == req[s].user
                doc == ApplyUserUpdates(user, body)
                err == SaveUserError(users, user, doc)
            IN  IF err # "none"
                  THEN /\ last' = ResponseTo("PATCH /users/me", [body |-> body], 400,
                                             [error |-> err])
                       /\ UNCHANGED <<users, passwords>>
                  ELSE /\ users' = SaveUser(users, user, doc)
                       /\ passwords' = IF "password" \in DOMAIN body
                                         THEN SetPassword(passwords, user._id, body.password)
                                         ELSE passwords
                       /\ last' = ResponseTo("PATCH /users/me", [body |-> body], 200,
                                             toJSON(SavedDoc(user, doc)))
  /\ req' = [req EXCEPT ![s] = Idle]
  /\ UNCHANGED <<nUsers, tasks, nTasks, now, issued, revoked>>

\* Mutant: deleteOne removes nothing
DeleteUser_Keeps(store, id) == store

\* req.user.deleteOne(): deleteOne({ _id }) on the users collection.  The
\* User model registers no hook on deleteOne.
DeleteUser(store, id) == [other \in DOMAIN store \ {id} |-> store[other]]

\* DELETE /users/me
DeleteMe(s) ==
  /\ req[s].pc = "authed"
  /\ users' = DeleteUser(users, req[s].user._id)
  /\ last' = Response("DELETE /users/me", 200, toJSON(req[s].user))
  /\ req' = [req EXCEPT ![s] = Idle]
  /\ UNCHANGED <<nUsers, tasks, nTasks, now, issued, revoked, passwords>>

---------------------------------------------------------------------------
\* Task model (models/Task.js)

\* priority: { enum: ['low', 'medium', 'high'] }
Priorities == {"low", "medium", "high"}

\* The schema's validators
TaskValid(task) ==
  /\ task.description # Undefined /\ task.description # <<>>
  /\ task.priority \in Priorities

\* Mutant: the body's fields are spread after owner, so its owner wins
NewTask_BodyOwner(body, id, owner) ==
  [_id |-> id,
   description |-> IF "description" \in DOMAIN body THEN Trim(body.description)
                   ELSE Undefined,
   completed |-> IF "completed" \in DOMAIN body THEN body.completed ELSE FALSE,
   priority |-> IF "priority" \in DOMAIN body THEN body.priority ELSE "medium",
   dueDate |-> IF "dueDate" \in DOMAIN body THEN body.dueDate ELSE "none",
   owner |-> IF "owner" \in DOMAIN body THEN body.owner ELSE owner]

\* new Task({ ...req.body, owner: req.user._id }): the schema's defaults and
\* setters, and owner written after the body's fields
NewTask(body, id, owner) ==
  [_id |-> id,
   description |-> IF "description" \in DOMAIN body THEN Trim(body.description)
                   ELSE Undefined,
   completed |-> IF "completed" \in DOMAIN body THEN body.completed ELSE FALSE,
   priority |-> IF "priority" \in DOMAIN body THEN body.priority ELSE "medium",
   dueDate |-> IF "dueDate" \in DOMAIN body THEN body.dueDate ELSE "none",
   owner |-> owner]

TaskPaths == {"description", "completed", "priority", "dueDate", "owner"}

\* task.isModified(path) for each path
ModifiedTaskPaths(orig, doc) == {path \in TaskPaths : doc[path] # orig[path]}

\* Mutant: save() does not notice that its update matched no document
SaveTaskError_NoExistenceCheck(store, orig, doc) ==
  IF ~TaskValid(doc) THEN "Task validation failed" ELSE "none"

\* The error of task.save() for a task loaded as `orig` that is now `doc`,
\* "none" if it succeeds.  A task has no array, so the filter is {_id} alone.
SaveTaskError(store, orig, doc) ==
  CASE ~TaskValid(doc) -> "Task validation failed"
    [] orig._id \notin DOMAIN store -> "DocumentNotFoundError"
    [] OTHER -> "none"

\* The tasks collection after a successful task.save()
SaveTask(store, orig, doc) ==
  LET paths == ModifiedTaskPaths(orig, doc)
      cur == store[orig._id]
  IN  [store EXCEPT ![orig._id] =
         [path \in DOMAIN cur |-> IF path \in paths THEN doc[path] ELSE cur[path]]]

InsertTask(store, doc) ==
  [id \in DOMAIN store \cup {doc._id} |-> IF id = doc._id THEN doc ELSE store[id]]

\* Mutant: the lookup is by id alone
FindTask_AnyOwner(store, id, owner) ==
  {tid \in DOMAIN store : tid = id}

\* Task.findOne({ _id, owner }): the matching tasks (none or one)
FindTask(store, id, owner) ==
  {tid \in DOMAIN store : tid = id /\ store[tid].owner = owner}

\* Mutant: the delete is by id alone
DeleteTaskDoc_AnyOwner(store, id, owner) ==
  [tid \in DOMAIN store \ {id} |-> store[tid]]

\* Task.findOneAndDelete({ _id, owner }): the collection afterwards
DeleteTaskDoc(store, id, owner) ==
  [tid \in DOMAIN store \ FindTask(store, id, owner) |-> store[tid]]

\* The 404 of the three routes on /tasks/:id
TaskNotFound == [error |-> "Task not found"]

---------------------------------------------------------------------------
\* routes/tasks.js

\* POST /tasks
PostTask(s, body) ==
  /\ req[s].pc = "authed"
  /\ nTasks < MaxTasks
  /\ LET task == NewTask(body, nTasks + 1, req[s].user._id)
     IN  IF ~TaskValid(task)
           THEN /\ last' = ResponseTo("POST /tasks", [body |-> body], 400,
                                         [error |-> "Task validation failed"])
                /\ UNCHANGED <<tasks, nTasks>>
           ELSE /\ tasks' = InsertTask(tasks, task)
                /\ nTasks' = nTasks + 1
                /\ last' = ResponseTo("POST /tasks", [body |-> body], 201, task)
  /\ req' = [req EXCEPT ![s] = Idle]
  /\ UNCHANGED <<users, nUsers, now, issued, revoked, passwords>>

\* The position of a task in the order of sort[field]
SortRank(task, field) ==
  CASE field = "completed" -> IF task.completed THEN 1 ELSE 0
    [] field = "priority" ->
         (CASE task.priority = "high" -> 1 [] task.priority = "low" -> 2 [] OTHER -> 3)
    [] OTHER -> 0

\* Mutant: the match is applied to the whole collection, without the join on
\* owner
MatchingTasks_AnyOwner(store, owner, query) ==
  {tid \in DOMAIN store :
     ("completed" \in DOMAIN query /\ query.completed # "") =>
       store[tid].completed = (query.completed = "true")}

\* The filter of req.user.populate({ path: 'tasks', match }): the virtual
\* joins on owner = req.user._id, match adds completed when the query has it
MatchingTasks(store, owner, query) ==
  {tid \in DOMAIN store :
     /\ store[tid].owner = owner
     /\ ("completed" \in DOMAIN query /\ query.completed # "") =>
          store[tid].completed = (query.completed = "true")}

\* The orders the database may return `ids` in: sorted on the sortBy field in
\* its direction if the query has one, any order among equal keys
TaskOrders(store, ids, query) ==
  {order \in [1..Cardinality(ids) -> ids] :
     /\ \A i, j \in DOMAIN order : i # j => order[i] # order[j]
     /\ "sortBy" \in DOMAIN query =>
          \A i, j \in DOMAIN order :
            i < j =>
              LET ri == SortRank(store[order[i]], query.sortBy[1])
                  rj == SortRank(store[order[j]], query.sortBy[1])
              IN  IF query.sortBy[2] = "desc" THEN ri >= rj ELSE ri <= rj}

\* Mutant: the skip option is not passed on
Page_NoSkip(order, query) ==
  LET limit == IF "limit" \in DOMAIN query THEN query.limit ELSE 0
  IN  IF limit = 0 \/ limit >= Len(order) THEN order ELSE SubSeq(order, 1, limit)

\* options { skip, limit } on an ordered result; limit 0 is no limit
Page(order, query) ==
  LET skip == IF "skip" \in DOMAIN query THEN query.skip ELSE 0
      limit == IF "limit" \in DOMAIN query THEN query.limit ELSE 0
      rest == SubSeq(order, skip + 1, Len(order))
  IN  IF limit = 0 \/ limit >= Len(rest) THEN rest ELSE SubSeq(rest, 1, limit)

\* GET /tasks
GetTasks(s, query) ==
  /\ req[s].pc = "authed"
  /\ \E order \in TaskOrders(tasks, MatchingTasks(tasks, req[s].user._id, query), query) :
       LET page == Page(order, query)
       IN  last' = ResponseTo("GET /tasks", [query |-> query], 200,
                              [i \in 1..Len(page) |-> tasks[page[i]]])
  /\ req' = [req EXCEPT ![s] = Idle]
  /\ UNCHANGED <<users, nUsers, tasks, nTasks, now, issued, revoked, passwords>>

\* What GET /tasks/:id answers `owner` on `store`
GetTaskResponse(store, owner, id) ==
  IF FindTask(store, id, owner) = {}
    THEN ResponseTo("GET /tasks/:id", [id |-> id], 404, TaskNotFound)
    ELSE ResponseTo("GET /tasks/:id", [id |-> id], 200, store[id])

\* GET /tasks/:id
GetTask(s, id) ==
  /\ req[s].pc = "authed"
  /\ last' = GetTaskResponse(tasks, req[s].user._id, id)
  /\ req' = [req EXCEPT ![s] = Idle]
  /\ UNCHANGED <<users, nUsers, tasks, nTasks, now, issued, revoked, passwords>>

\* Mutant: owner is among the allowed updates
allowedUpdates_WithOwner == {"description", "completed", "owner"}

\* const allowedUpdates = ['description', 'completed'] of PATCH /tasks/:id
allowedUpdates == {"description", "completed"}

\* updates.every((update) => allowedUpdates.includes(update))
isValidOperation(body) == DOMAIN body \subseteq allowedUpdates

\* The 400 of PATCH /tasks/:id for a body with a key outside allowedUpdates
InvalidUpdates == [error |-> "Invalid updates"]

\* What PATCH /tasks/:id answers `owner` on `store` if it returns before the
\* updates, NoResp if it goes on to them
PatchTaskResponse(store, owner, id, body) ==
  CASE ~isValidOperation(body) ->
         ResponseTo("PATCH /tasks/:id", [id |-> id, body |-> body], 400, InvalidUpdates)
    [] isValidOperation(body) /\ FindTask(store, id, owner) = {} ->
         ResponseTo("PATCH /tasks/:id", [id |-> id, body |-> body], 404, TaskNotFound)
    [] OTHER -> NoResp

\* PATCH /tasks/:id, up to the end of Task.findOne
PatchTask(s, id, body) ==
  /\ req[s].pc = "authed"
  /\ last' = PatchTaskResponse(tasks, req[s].user._id, id, body)
  /\ IF last' # NoResp
       THEN req' = [req EXCEPT ![s] = Idle]
       ELSE req' = [req EXCEPT ![s] =
                      [pc |-> "patchTask", user |-> req[s].user,
                       token |-> req[s].token,
                       task |-> tasks[id], body |-> body]]
  /\ UNCHANGED <<users, nUsers, tasks, nTasks, now, issued, revoked, passwords>>

\* task[update] = req.body[update] for every key of the body
ApplyTaskUpdates(task, body) ==
  [path \in DOMAIN task |->
     IF path \in DOMAIN body
       THEN (IF path = "description" THEN Trim(body[path]) ELSE body[path])
       ELSE task[path]]

\* PATCH /tasks/:id, from the updates to the response
PatchTaskSave(s) ==
  /\ req[s].pc = "patchTask"
  /\ LET task == req[s].task
         doc == ApplyTaskUpdates(task, req[s].body)
         err == SaveTaskError(tasks, task, doc)
         params == [id |-> task._id, body |-> req[s].body]
     IN  IF err # "none"
           THEN /\ last' = ResponseTo("PATCH /tasks/:id", params, 400, [error |-> err])
                /\ UNCHANGED tasks
           ELSE /\ tasks' = SaveTask(tasks, task, doc)
                /\ last' = ResponseTo("PATCH /tasks/:id", params, 200, doc)
  /\ req' = [req EXCEPT ![s] = Idle]
  /\ UNCHANGED <<users, nUsers, nTasks, now, issued, revoked, passwords>>

\* What DELETE /tasks/:id answers `owner` on `store`
DeleteTaskResponse(store, owner, id) ==
  IF FindTask(store, id, owner) = {}
    THEN ResponseTo("DELETE /tasks/:id", [id |-> id], 404, TaskNotFound)
    ELSE ResponseTo("DELETE /tasks/:id", [id |-> id], 200, store[id])

\* DELETE /tasks/:id
DeleteTask(s, id) ==
  /\ req[s].pc = "authed"
  /\ last' = DeleteTaskResponse(tasks, req[s].user._id, id)
  /\ tasks' = DeleteTaskDoc(tasks, id, req[s].user._id)
  /\ req' = [req EXCEPT ![s] = Idle]
  /\ UNCHANGED <<users, nUsers, nTasks, now, issued, revoked, passwords>>

---------------------------------------------------------------------------
\* What the clients send

EmailA == <<"a", "@", "x">>
EmailB == <<"b", "@", "x">>
EmailBad == <<"a", "x">>
Secret1 == <<"s", "e", "c", "r", "e", "t", "1">>
Secret2 == <<"s", "e", "c", "r", "e", "t", "2">>

BodyA == [name |-> <<"A">>, email |-> EmailA, password |-> Secret1]
BodyB == [name |-> <<"B">>, email |-> EmailB, password |-> Secret2]

\* Signups of the session runs: one account, which can be deleted and
\* registered again, and a body the schema rejects
SignupBodies == {BodyA, [name |-> <<"A">>, email |-> EmailBad, password |-> Secret1]}

LoginBodies ==
  {[email |-> EmailA, password |-> Secret1], [email |-> EmailA, password |-> Secret2]}

PatchMeBodies == {[name |-> <<"C">>], [tokens |-> <<>>]}

\* Signups of the task runs: two accounts
TaskSignupBodies == {BodyA, BodyB}

EmailUpperA == <<"A", "@", "x">>
EmailC == <<"C", "@", "x">>
PaddedSecret2 == <<" ">> \o Secret2
ShortPassword == <<"1", "2", "3", "4", "5">>

\* Signups of the account runs: two accounts, the second with a password
\* that has a leading space; a body whose email differs from the first
\* account's in case only; and bodies the schema rejects (an empty name, an
\* email without '@', a password that is too short)
AccountSignupBodies ==
  {BodyA,
   [name |-> <<"B">>, email |-> EmailB, password |-> PaddedSecret2],
   [name |-> <<"B">>, email |-> EmailUpperA, password |-> Secret2],
   [name |-> <<>>, email |-> EmailB, password |-> Secret2],
   [name |-> <<"B">>, email |-> EmailBad, password |-> Secret2],
   [name |-> <<"B">>, email |-> EmailB, password |-> ShortPassword]}

\* The passwords a client tries
Passwords == {Secret1, Secret2, PaddedSecret2, ShortPassword}

AccountLoginBodies ==
  {[email |-> EmailUpperA, password |-> Secret1],
   [email |-> EmailB, password |-> PaddedSecret2],
   [email |-> EmailB, password |-> Secret2]}

AccountPatchBodies ==
  {[email |-> EmailUpperA], [email |-> EmailC], [password |-> Secret2],
   [password |-> ShortPassword], [name |-> <<"C">>, tokens |-> <<>>],
   [_id |-> 1]}

PostTaskBodies ==
  {[description |-> <<"t">>], [completed |-> TRUE],
   [description |-> <<"t">>, priority |-> "urgent"]}
  \cup {[description |-> <<"t">>, owner |-> id] : id \in UserIds}

PatchTaskBodies ==
  {[completed |-> TRUE], [description |-> <<" ">>], [priority |-> "high"]}
  \cup {[owner |-> id] : id \in UserIds}

NoQuery == [key \in {} |-> ""]

Queries ==
  {NoQuery, [completed |-> "true"], [completed |-> "false"], [limit |-> 1],
   [skip |-> 1], [sortBy |-> <<"completed", "desc">>],
   [completed |-> "false", limit |-> 1, skip |-> 1, sortBy |-> <<"priority", "asc">>]}

\* The ids a client can ask for: every ObjectId the server may hand out, and
\* one it never does
RequestIds == 1..(MaxTasks + 1)

---------------------------------------------------------------------------
\* The system

Init ==
  /\ users = <<>>
  /\ nUsers = 0
  /\ tasks = <<>>
  /\ nTasks = 0
  /\ now = 0
  /\ req = [s \in Slots |-> Idle]
  /\ last = NoResp
  /\ issued = {}
  /\ revoked = {}
  /\ passwords = <<>>

\* The steps on the users collection: accounts and sessions
UserStep(s) ==
  \/ \E body \in SignupBodies : Signup(s, body)
  \/ \E body \in LoginBodies : Login(s, body)
  \/ generateAuthToken(s)
  \/ \E cred \in Credentials : AuthReject(s, cred)
  \/ \E cred \in Credentials : AuthPass(s, cred)
  \/ Logout(s)
  \/ LogoutAll(s)
  \/ GetMe(s)
  \/ \E body \in PatchMeBodies : PatchMe(s, body)
  \/ DeleteMe(s)

Next ==
  \/ Tick
  \/ \E s \in Slots : UserStep(s)

\* Accounts and sessions under concurrent requests and a running clock
Spec == Init /\ [][Next]_vars

\* The steps of the account routes
AccountStep(s) ==
  \/ \E body \in AccountSignupBodies : Signup(s, body)
  \/ \E body \in AccountLoginBodies : Login(s, body)
  \/ generateAuthToken(s)
  \/ \E cred \in Credentials : AuthReject(s, cred)
  \/ \E cred \in Credentials : AuthPass(s, cred)
  \/ GetMe(s)
  \/ \E body \in AccountPatchBodies : PatchMe(s, body)
  \/ DeleteMe(s)

AccountNext == \E s \in Slots : AccountStep(s)

\* Registration, credentials and profile updates under concurrent requests
AccountSpec == Init /\ [][AccountNext]_vars

\* Logins of the session runs with two accounts
SessionLoginBodies ==
  {[email |-> EmailA, password |-> Secret1], [email |-> EmailB, password |-> Secret2]}

\* Signups of the session runs with two accounts: the second account's body
\* may carry a tokens array of the client's making
SessionSignupBodies ==
  {BodyA, BodyB,
   [name |-> <<"B">>, email |-> EmailB, password |-> Secret2, tokens |-> <<BadToken>>]}

\* The steps of signup, login and logout
SessionStep(s) ==
  \/ \E body \in SessionSignupBodies : Signup(s, body)
  \/ \E body \in SessionLoginBodies : Login(s, body)
  \/ generateAuthToken(s)
  \/ \E cred \in Credentials : AuthReject(s, cred)
  \/ \E cred \in Credentials : AuthPass(s, cred)
  \/ Logout(s)

SessionNext ==
  \/ Tick
  \/ \E s \in Slots : SessionStep(s)

\* The sessions of two accounts under concurrent requests and a running clock
SessionSpec == Init /\ [][SessionNext]_vars

\* The steps of the task routes, and the account steps they depend on
TaskStep(s) ==
  \/ \E body \in TaskSignupBodies : Signup(s, body)
  \/ generateAuthToken(s)
  \/ \E cred \in Credentials : AuthReject(s, cred)
  \/ \E cred \in Credentials : AuthPass(s, cred)
  \/ DeleteMe(s)
  \/ \E body \in PostTaskBodies : PostTask(s, body)
  \/ \E query \in Queries : GetTasks(s, query)
  \/ \E id \in RequestIds : GetTask(s, id)
  \/ \E id \in RequestIds, body \in PatchTaskBodies : PatchTask(s, id, body)
  \/ PatchTaskSave(s)
  \/ \E id \in RequestIds : DeleteTask(s, id)

TaskNext == \E s \in Slots : TaskStep(s)

\* The task routes under concurrent requests
TaskSpec == Init /\ [][TaskNext]_vars

---------------------------------------------------------------------------
\* Properties

\* The auth middleware would let a request carrying `token` through now
Accepted(token) == AuthAccepts(users, now, <<token>>)

\* The step taken is the last one of a request in slot s, with this response
Answers(s, route, status) ==
  /\ req[s] # Idle
  /\ req'[s] = Idle
  /\ last'.route = route
  /\ last'.status = status

\* The step taken is a signup or login returning `token` to its client
Issues(token) ==
  /\ last'.route \in {"POST /users/signup", "POST /users/login"}
  /\ last'.status \in {200, 201}
  /\ last'.body.token = token

\* C1, as stated: once POST /users/logout with token T has returned success,
\* the auth middleware rejects T in every later state.
C1_LoggedOutTokenStaysRejected ==
  \A r \in revoked : r.by = "logout" => ~Accepted(r.token)

\* C1, amended: the state in which POST /users/logout with token T returns
\* success rejects T, also when T is validly signed and unexpired, and from
\* then on T is rejected in every state until a signup or login of the same
\* user returns the identical token string again.
C1_LoggedOutTokenRejectedUntilReissued ==
  [][/\ \A s \in Slots :
          Answers(s, "POST /users/logout", 200) =>
            ~AuthAccepts(users', now', <<req[s].token>>)
     /\ \A r \in revoked :
          (r.by = "logout" /\ ~Accepted(r.token) /\ AuthAccepts(users', now', <<r.token>>))
            => Issues(r.token)]_vars

\* A logout has just succeeded, and its token, still validly signed and
\* unexpired, is rejected
C1_Witness ==
  /\ last.route = "POST /users/logout"
  /\ last.status = 200
  /\ \E r \in revoked : r.by = "logout" /\ jwtVerify(r.token, now) /\ ~Accepted(r.token)

\* C2, as stated: once POST /users/logoutAll has returned success for a
\* user, every token issued to that user before is rejected in every later
\* state.
C2_LoggedOutAllTokensStayRejected ==
  \A r \in revoked : r.by = "logoutAll" => ~Accepted(r.token)

\* C2, amended: the state in which POST /users/logoutAll returns success
\* rejects every token issued to that user so far, whichever session it was
\* issued to, and from then on each of them is rejected in every state until
\* a signup or login of the same user returns the identical token string
\* again.  A login that runs concurrently either saved its token before the
\* logoutAll saved (and the token is among those rejected) or its save fails.
C2_LoggedOutAllTokensRejectedUntilReissued ==
  [][/\ \A s \in Slots :
          Answers(s, "POST /users/logoutAll", 200) =>
            \A token \in issued :
              token._id = req[s].user._id => ~AuthAccepts(users', now', <<token>>)
     /\ \A r \in revoked :
          (r.by = "logoutAll" /\ ~Accepted(r.token) /\ AuthAccepts(users', now', <<r.token>>))
            => Issues(r.token)]_vars

\* A logoutAll has just succeeded while a login of the same user is in
\* progress, and two tokens of that user, both validly signed and unexpired,
\* are rejected
C2_Witness ==
  /\ last.route = "POST /users/logoutAll"
  /\ last.status = 200
  /\ \E r1, r2 \in revoked :
       /\ r1.by = "logoutAll" /\ r2.by = "logoutAll"
       /\ r1.token # r2.token
       /\ r1.token._id = r2.token._id
       /\ jwtVerify(r1.token, now) /\ jwtVerify(r2.token, now)
       /\ ~Accepted(r1.token) /\ ~Accepted(r2.token)
       /\ \E s \in Slots : req[s].pc = "login" /\ req[s].user._id = r1.token._id

\* C3, as stated: when DELETE /users/me returns success for user U, no task
\* with owner = U remains in the task store, and every task owned by another
\* user is unchanged.
C3_DeleteMeRemovesOwnTasks ==
  [][\A s \in Slots :
       Answers(s, "DELETE /users/me", 200) =>
         LET U == req[s].user._id
         IN  /\ \A id \in DOMAIN tasks' : tasks'[id].owner # U
             /\ \A id \in DOMAIN tasks :
                  tasks[id].owner # U => (id \in DOMAIN tasks' /\ tasks'[id] = tasks[id])]_vars

\* The tasks of `store` that `owner` owns
OwnTasks(store, owner) ==
  [tid \in {t \in DOMAIN store : store[t].owner = owner} |-> store[tid]]

\* The routes on /tasks/:id
ByIdRoutes == {"GET /tasks/:id", "PATCH /tasks/:id", "DELETE /tasks/:id"}

\* Slot s, past the guard, takes a step of its handler
Handles(s) == req[s] # Idle /\ req[s].pc # "signup" /\ req[s].pc # "login" /\ req'[s] # req[s]

C5_ListReturnsOwnTasksOnly ==
  [][\A s \in Slots :
       Answers(s, "GET /tasks", 200) =>
         \A i \in DOMAIN last'.body : last'.body[i].owner = req[s].user._id]_vars

\* GET /tasks has just returned a task while the store holds tasks of two
\* owners
C5_Witness ==
  /\ last.route = "GET /tasks"
  /\ last.status = 200
  /\ last.body # <<>>
  /\ \E id \in DOMAIN tasks : tasks[id].owner # last.body[1].owner

\* Slot s comes out of the auth middleware into a route handler
Admitted(s) == req[s] = Idle /\ req'[s] # Idle /\ req'[s].pc = "authed"

\* C6: a request to a protected route with no credential, or with one the
\* guard rejects, is answered 401 {error: 'Please authenticate'}; no route
\* handler runs for it (no request is admitted in that step, and a request
\* is admitted only with a credential the guard accepts); and the user
\* store, with every token set, and the task store are unchanged.
C6_RejectedRequestChangesNothing ==
  [][/\ last'.route = "auth" =>
          /\ ~AuthAccepts(users, now, last'.params.cred)
          /\ last'.status = 401 /\ last'.body = PleaseAuthenticate
          /\ req' = req /\ users' = users /\ tasks' = tasks
          /\ nUsers' = nUsers /\ nTasks' = nTasks
     /\ \A s \in Slots :
          Admitted(s) =>
            /\ AuthAccepts(users, now, <<req'[s].token>>)
            /\ last'.route # "auth"]_vars

\* A request carrying a token that was issued, of a user since deleted, has
\* just been answered 401 while both stores hold documents
C6_Witness ==
  /\ last.route = "auth" /\ last.status = 401
  /\ last.params.cred # <<>>
  /\ last.params.cred[1] \in issued
  /\ users # <<>> /\ tasks # <<>>

\* T is validly signed and unexpired, its user exists and has T in tokens
Active(T) ==
  /\ T.sig
  /\ now < T.exp
  /\ T._id \in DOMAIN users
  /\ \E i \in DOMAIN users[T._id].tokens : users[T._id].tokens[i] = T

\* C7: the guard accepts token T exactly when T's signature verifies, T is
\* unexpired, the user whose id T embeds exists, and T is in that user's
\* current token set: every credential is accepted if and only if it is such
\* a token, a request is admitted only with such a token and as that user,
\* and a request is rejected only without one.
C7_AcceptsExactlyActiveTokens ==
  /\ [](\A cred \in Credentials :
          AuthAccepts(users, now, cred) <=> (cred # <<>> /\ Active(cred[1])))
  /\ [][/\ \A s \in Slots :
             Admitted(s) =>
               /\ Active(req'[s].token)
               /\ req'[s].user = users[req'[s].token._id]
        /\ last'.route = "auth" =>
             (last'.params.cred = <<>> \/ ~Active(last'.params.cred[1]))]_vars

\* A validly signed, unexpired token of an existing user has just been
\* rejected, being no longer in the user's token set, while a request with
\* another token of that user is past the guard
C7_Witness ==
  /\ last.route = "auth" /\ last.status = 401
  /\ last.params.cred # <<>>
  /\ LET T == last.params.cred[1]
     IN  /\ T.sig /\ now < T.exp /\ T._id \in DOMAIN users
         /\ \E s \in Slots :
              /\ req[s] # Idle /\ req[s].pc = "authed"
              /\ req[s].token # T /\ req[s].token._id = T._id

\* C8, as stated: PATCH or DELETE /tasks/:id by a user for a task that
\* another user owns is answered 404, and the task is still stored with every
\* field unchanged.
C8_OthersTaskIsNotFoundAndKept ==
  [][\A s \in Slots :
       (Handles(s) /\ last'.route \in {"PATCH /tasks/:id", "DELETE /tasks/:id"}
          /\ last'.params.id \in DOMAIN tasks
          /\ tasks[last'.params.id].owner # req[s].user._id)
         => /\ last'.status = 404
            /\ last'.params.id \in DOMAIN tasks'
            /\ tasks'[last'.params.id] = tasks[last'.params.id]]_vars

\* C8, amended: PATCH or DELETE /tasks/:id by a user for a task that another
\* user owns is answered 404, or, for a PATCH whose body has a key outside
\* allowedUpdates, 400 {error: 'Invalid updates'}; either way the task is
\* still stored with every field unchanged.
C8_OthersTaskIsRefusedAndKept ==
  [][\A s \in Slots :
       (Handles(s) /\ last'.route \in {"PATCH /tasks/:id", "DELETE /tasks/:id"}
          /\ last'.params.id \in DOMAIN tasks
          /\ tasks[last'.params.id].owner # req[s].user._id)
         => /\ \/ last'.status = 404 /\ last'.body = TaskNotFound
               \/ /\ last'.route = "PATCH /tasks/:id"
                  /\ DOMAIN last'.params.body \ allowedUpdates # {}
                  /\ last'.status = 400 /\ last'.body = InvalidUpdates
            /\ last'.params.id \in DOMAIN tasks'
            /\ tasks'[last'.params.id] = tasks[last'.params.id]]_vars

\* DELETE /tasks/:id has just answered 404 for a stored task, which is
\* another user's and is still there
C8_Witness ==
  /\ last.route = "DELETE /tasks/:id"
  /\ last.status = 404
  /\ last.params.id \in DOMAIN tasks
  /\ tasks[last.params.id].owner \in DOMAIN users

\* C9: a task created by POST /tasks has the caller as its owner, in the
\* response and in the store, whatever the body, a body with an owner field
\* naming another user included.
C9_CreatedTaskOwnedByCaller ==
  [][\A s \in Slots :
       Answers(s, "POST /tasks", 201) =>
         /\ last'.body.owner = req[s].user._id
         /\ last'.body._id \in DOMAIN tasks' \ DOMAIN tasks
         /\ tasks'[last'.body._id] = last'.body
         /\ \A id \in DOMAIN tasks' \ DOMAIN tasks : id = last'.body._id]_vars

\* POST /tasks has just created a task from a body whose owner field names
\* another, existing user
C9_Witness ==
  /\ last.route = "POST /tasks" /\ last.status = 201
  /\ "owner" \in DOMAIN last.params.body
  /\ last.params.body.owner \in DOMAIN users
  /\ last.params.body.owner # last.body.owner
  /\ tasks[last.body._id].owner = last.body.owner

\* C10: every stored task has one owner, a user id, and no step changes it:
\* a task keeps the owner it was created with whatever PATCH /tasks/:id
\* requests are made, and the id of a deleted task is not given to another.
C10_OwnerFixedAtCreation ==
  /\ [](\A id \in DOMAIN tasks : tasks[id].owner \in UserIds /\ id <= nTasks)
  /\ [][/\ \A id \in DOMAIN tasks \cap DOMAIN tasks' :
             tasks'[id].owner = tasks[id].owner
        /\ \A id \in DOMAIN tasks' \ DOMAIN tasks : id > nTasks]_vars

\* PATCH /tasks/:id with a body naming another owner has just been answered
\* for a stored task, and a PATCH of a task has succeeded before
C10_Witness ==
  /\ last.route = "PATCH /tasks/:id"
  /\ "owner" \in DOMAIN last.params.body
  /\ last.params.id \in DOMAIN tasks
  /\ tasks[last.params.id].owner # last.params.body.owner
  /\ tasks[last.params.id].completed

\* Some user of `store` other than `id` has `email`, up to case and
\* surrounding blanks
EmailInUse(store, email, id) ==
  \E other \in DOMAIN store :
    other # id /\ ToLower(store[other].email) = ToLower(Trim(email))

\* C11, as stated: no two stored users have emails that are equal after
\* lower-casing; a signup whose email is, up to case, that of a stored user,
\* and a PATCH /users/me that sets the email to that of another stored user
\* up to case, are answered 400 and leave the users collection as it was,
\* whatever other requests are in progress.
C11_EmailsUniqueAndConflictsRefused ==
  /\ [](\A id1, id2 \in DOMAIN users :
          id1 # id2 => ToLower(users[id1].email) # ToLower(users[id2].email))
  /\ [][/\ \A id \in DOMAIN users' \ DOMAIN users :
             ~EmailInUse(users, users'[id].email, id)
        /\ (last'.route = "POST /users/signup" /\ last'.status # 201)
             => (last'.status = 400 /\ users' = users /\ nUsers' = nUsers)
        /\ \A s \in Slots :
             (Handles(s) /\ last'.route = "PATCH /users/me"
                /\ "email" \in DOMAIN last'.params.body
                /\ EmailInUse(users, last'.params.body.email, req[s].user._id))
               => (last'.status = 400 /\ users' = users)]_vars

\* C11, amended: no two stored users have emails that are equal after
\* lower-casing, and no step stores an email that another stored user has up
\* to case.  A signup with such an email is answered 400 and changes
\* nothing.  A PATCH /users/me with such an email is answered 400 and
\* changes nothing, unless the email is, lower-cased, the one the request
\* loaded for its own user before a concurrent request changed it: then the
\* email is not written, the answer is 200, and no stored email changes.
C11_EmailsUniqueIgnoringCase ==
  /\ [](\A id1, id2 \in DOMAIN users :
          id1 # id2 => ToLower(users[id1].email) # ToLower(users[id2].email))
  /\ [][/\ \A id \in DOMAIN users' \ DOMAIN users :
             ~EmailInUse(users, users'[id].email, id)
        /\ (last'.route = "POST /users/signup" /\ last'.status # 201)
             => (last'.status = 400 /\ users' = users /\ nUsers' = nUsers)
        /\ \A s \in Slots :
             (Handles(s) /\ last'.route = "PATCH /users/me"
                /\ "email" \in DOMAIN last'.params.body
                /\ EmailInUse(users, last'.params.body.email, req[s].user._id))
               => \/ last'.status = 400 /\ users' = users
                  \/ /\ SetUserPath("email", last'.params.body.email) = req[s].user.email
                     /\ last'.status = 200
                     /\ DOMAIN users' = DOMAIN users
                     /\ \A id \in DOMAIN users : users'[id].email = users[id].email]_vars

\* A signup with an email that differs in case only from that of an account
\* whose own signup is still in progress has just been refused
C11_Witness ==
  /\ last.route = "POST /users/signup" /\ last.status = 400
  /\ last.body.error = "E11000 duplicate key"
  /\ last.params.body.email = EmailUpperA
  /\ \E s \in Slots :
       /\ req[s] # Idle /\ req[s].pc = "signup"
       /\ req[s].user.email = ToLower(EmailUpperA)
       /\ req[s].user.email # EmailUpperA

\* C12, as stated: for every stored user the password field is the hash of
\* the password the user last set, and not that password itself, and the
\* credential check of POST /users/login with the user's email passes for
\* that password and for no other string.
C12_PasswordHashedAndLoginExact ==
  \A id \in DOMAIN users :
    /\ users[id].password = bcryptHash(passwords[id])
    /\ users[id].password # passwords[id]
    /\ \A password \in Passwords :
         (id \in findByCredentials(users, users[id].email, password))
           <=> (password = passwords[id])

\* The routes that answer with a user representation, and where it is in
\* the body of a successful response
UserRoutes ==
  {"POST /users/signup", "POST /users/login", "GET /users/me", "PATCH /users/me",
   "DELETE /users/me"}

UserIn(response) ==
  IF response.route \in {"POST /users/signup", "POST /users/login"}
    THEN response.body.user
    ELSE response.body

\* C13: the user representation in a successful response of signup, login,
\* GET, PATCH and DELETE /users/me has neither the password field nor the
\* tokens field.
C13_UserResponsesOmitSecrets ==
  (last.route \in UserRoutes /\ last.status \in {200, 201})
    => DOMAIN UserIn(last) \cap {"password", "tokens"} = {}

\* A login has just returned the representation of a user whose stored
\* document has a password hash and tokens
C13_Witness ==
  /\ last.route = "POST /users/login" /\ last.status = 200
  /\ UserIn(last)._id \in DOMAIN users
  /\ users[UserIn(last)._id].tokens # <<>>
  /\ users[UserIn(last)._id].password = bcryptHash(Secret1)

\* Slot s answers a PATCH /tasks/:id for a task its caller owns
PatchesOwnTask(s) ==
  /\ Handles(s)
  /\ last'.route = "PATCH /tasks/:id"
  /\ \/ req[s].pc = "patchTask"
     \/ FindTask(tasks, last'.params.id, req[s].user._id) # {}

\* C14, as stated: PATCH /tasks/:id on a task of the caller is answered 400
\* exactly when the body has a key outside {description, completed, priority,
\* dueDate} or a priority outside {low, medium, high}; a body {priority: p}
\* with p in {low, medium, high} is answered 200 and the stored priority
\* becomes p; and a refused update leaves the task unchanged.
C14_PatchTaskAllowListAndPriority ==
  [][\A s \in Slots :
       PatchesOwnTask(s) =>
         LET body == last'.params.body
             id == last'.params.id
         IN  /\ (last'.status = 400) <=>
                  \/ ~(DOMAIN body \subseteq {"description", "completed", "priority", "dueDate"})
                  \/ ("priority" \in DOMAIN body /\ body.priority \notin Priorities)
             /\ (DOMAIN body = {"priority"} /\ body.priority \in Priorities) =>
                  (last'.status = 200 /\ tasks'[id].priority = body.priority)
             /\ last'.status = 400 => tasks' = tasks]_vars

\* A signup body with an empty name, an email without '@' or a password
\* shorter than 6 characters
InvalidSignup(body) ==
  \/ body.name = <<>>
  \/ ~IncludesAt(body.email)
  \/ Len(body.password) < MinPasswordLength

\* C15: POST /users/signup with an empty name, an email without '@' or a
\* password shorter than 6 characters is answered 400, stores no user and
\* issues no token: the step that refuses it changes neither the users
\* collection nor the tokens issued, and no step stores a user from such a
\* body.
C15_InvalidSignupRefused ==
  [][/\ (last'.route = "POST /users/signup" /\ "params" \in DOMAIN last'
           /\ InvalidSignup(last'.params.body))
          => /\ last'.status = 400
             /\ users' = users /\ nUsers' = nUsers
             /\ issued' = issued /\ req' = req
     /\ \A id \in DOMAIN users' \ DOMAIN users :
          /\ users'[id].name # <<>>
          /\ IncludesAt(users'[id].email)
          /\ Len(passwords'[id]) >= MinPasswordLength]_vars

\* A signup with a password of 5 characters has just been refused while an
\* account exists
C15_Witness ==
  /\ last.route = "POST /users/signup" /\ last.status = 400
  /\ "params" \in DOMAIN last
  /\ last.params.body.password = ShortPassword
  /\ last.body.error = "User validation failed"
  /\ users # <<>>

\* C16: a token that a successful signup or login returns is accepted by the
\* guard from that response on, and an accepted token stops being accepted
\* only by a successful logout with that token, a successful logoutAll or
\* DELETE /users/me of its user, or the clock reaching its expiry.
C16_IssuedTokenAcceptedUntilRevoked ==
  [][/\ \A T \in issued' : Issues(T) => AuthAccepts(users', now', <<T>>)
     /\ \A T \in issued :
          (Accepted(T) /\ ~AuthAccepts(users', now', <<T>>)) =>
            \/ \E s \in Slots :
                 Answers(s, "POST /users/logout", 200) /\ req[s].token = T
            \/ \E s \in Slots :
                 Answers(s, "POST /users/logoutAll", 200) /\ req[s].user._id = T._id
            \/ \E s \in Slots :
                 Answers(s, "DELETE /users/me", 200) /\ req[s].user._id = T._id
            \/ now' >= T.exp]_vars

\* A token issued a second ago is accepted after a later token of the same
\* user has been logged out
C16_Witness ==
  \E T \in issued :
    /\ T.iat < now
    /\ Accepted(T)
    /\ \E r \in revoked : r.by = "logout" /\ r.token # T /\ r.token._id = T._id

\* Why the guard rejects `cred` in the current state
RejectCause(cred) ==
  CASE cred = <<>> -> "missing"
    [] cred # <<>> /\ ~cred[1].sig -> "malformed"
    [] cred # <<>> /\ cred[1].sig /\ now >= cred[1].exp -> "expired"
    [] cred # <<>> /\ cred[1].sig /\ now < cred[1].exp /\ cred[1]._id \notin DOMAIN users
         -> "deleted"
    [] OTHER -> "revoked"

\* C17: whatever makes the guard reject a request (no header, a malformed or
\* tampered token, an expired token, a token that was logged out, a token
\* of a deleted user), the response is 401 with the one body {error: 'Please
\* authenticate'}, so the response does not tell the cause.
C17_RejectionIsGeneric ==
  last.route = "auth" =>
    /\ RejectCause(last.params.cred) \in
         {"missing", "malformed", "expired", "deleted", "revoked"}
    /\ last.status = 401
    /\ last.body = PleaseAuthenticate

\* An expired token has just been rejected, after a logged-out one had been
C17_Witness ==
  /\ last.route = "auth"
  /\ RejectCause(last.params.cred) = "expired"
  /\ \E r \in revoked : r.by = "logout"

\* C18: PATCH /users/me with a body that has a key other than name, email
\* and password is answered 400 {error: 'Invalid updates'} and leaves the
\* users collection, token sets included, as it was; a PATCH that is
\* answered 200 had those keys only.
C18_PatchMeAllowList ==
  [][\A s \in Slots :
       (Handles(s) /\ last'.route = "PATCH /users/me") =>
         LET keys == DOMAIN last'.params.body
         IN  /\ ~(keys \subseteq {"name", "email", "password"}) =>
                  /\ last'.status = 400
                  /\ last'.body = [error |-> "Invalid updates"]
                  /\ users' = users
             /\ last'.status = 200 => keys \subseteq {"name", "email", "password"}]_vars

\* A PATCH /users/me with a name and an empty tokens array has just been
\* refused, and every stored user has its tokens and its name
C18_Witness ==
  /\ last.route = "PATCH /users/me" /\ last.status = 400
  /\ DOMAIN last.params.body = {"name", "tokens"}
  /\ users # <<>>
  /\ \A id \in DOMAIN users :
       users[id].tokens # <<>> /\ users[id].name # last.params.body.name

MayPrecede(x, y, query) ==
  "sortBy" \in DOMAIN query =>
    IF query.sortBy[2] = "desc"
      THEN SortRank(x, query.sortBy[1]) >= SortRank(y, query.sortBy[1])
      ELSE SortRank(x, query.sortBy[1]) <= SortRank(y, query.sortBy[1])

\* C20: GET /tasks returns stored tasks of the caller, each once, that match
\* the completed filter if one is given; in the order of the sortBy field,
\* descending for ':desc' and ascending otherwise; without the first `skip`
\* of that order; and at most `limit` of them, all the rest if limit is 0 or
\* absent.
C20_ListFiltersSortsAndPages ==
  [][\A s \in Slots :
       Answers(s, "GET /tasks", 200) =>
         LET A == req[s].user._id
             query == last'.params.query
             body == last'.body
             matching ==
               {id \in DOMAIN tasks :
                  /\ tasks[id].owner = A
                  /\ ("completed" \in DOMAIN query /\ query.completed = "true")
                       => tasks[id].completed
                  /\ ("completed" \in DOMAIN query /\ query.completed = "false")
                       => ~tasks[id].completed}
             returned == {body[i]._id : i \in DOMAIN body}
             skip == IF "skip" \in DOMAIN query THEN query.skip ELSE 0
             limit == IF "limit" \in DOMAIN query THEN query.limit ELSE 0
             rest == IF Cardinality(matching) > skip THEN Cardinality(matching) - skip ELSE 0
         IN  /\ \A i \in DOMAIN body : body[i]._id \in matching /\ body[i] = tasks[body[i]._id]
             /\ \A i, j \in DOMAIN body : i # j => body[i]._id # body[j]._id
             /\ \A i, j \in DOMAIN body : i < j => MayPrecede(body[i], body[j], query)
             /\ Len(body) = IF limit = 0 \/ limit > rest THEN rest ELSE limit
             /\ \E skipped \in SUBSET (matching \ returned) :
                  /\ Cardinality(skipped) = Cardinality(matching) - rest
                  /\ \A x \in skipped, y \in returned :
                       MayPrecede(tasks[x], tasks[y], query)
                  /\ \A x \in returned, y \in (matching \ returned) \ skipped :
                       MayPrecede(tasks[x], tasks[y], query)]_vars

\* GET /tasks sorted on completed, descending, has just returned two tasks
\* of the caller, the completed one first although it was created last
C20_Witness ==
  /\ last.route = "GET /tasks" /\ last.status = 200
  /\ last.params.query = [sortBy |-> <<"completed", "desc">>]
  /\ Len(last.body) = 2
  /\ last.body[1].completed /\ ~last.body[2].completed
  /\ last.body[1]._id > last.body[2]._id

---------------------------------------------------------------------------
\* Concurrent writers of one user's tokens

\* The step taken is the token issuance of the signup or login in slot s
IssuesIn(s) == req[s] # Idle /\ req[s].pc \in {"signup", "login"} /\ req'[s] = Idle

\* The read-modify-save sequence in slot s has been overtaken: the user it
\* loaded is stored with other tokens now
Overtaken(s) ==
  /\ req[s] # Idle
  /\ req[s].user._id \in DOMAIN users
  /\ users[req[s].user._id].tokens # req[s].user.tokens

\* The tokens in a token array
TokenSet(tokens) == {tokens[i] : i \in 1..Len(tokens)}

C23_TaskOwnersExist ==
  \A id \in DOMAIN tasks : tasks[id].owner \in DOMAIN users

\* C24, as stated: account deletion deletes all tasks owned by the user
\* before it deletes the user record (whose token set goes with it, last):
\* in a step that removes a user record, no task owned by that user is
\* stored any more.
C24_TasksDeletedBeforeUser ==
  [][\A id \in DOMAIN users \ DOMAIN users' :
       /\ DOMAIN OwnTasks(tasks, id) = {}
       /\ DOMAIN OwnTasks(tasks', id) = {}]_vars

\* C25: a logout with token T that returns success removes only T from the
\* caller's token set: the set afterwards is the stored set without T, the
\* records of all other users are as they were, and every other token that
\* the guard accepted before, of the same user or of another, is still in
\* its user's set and still accepted.
C25_LogoutRemovesOnlyItsToken ==
  [][\A s \in Slots :
       Answers(s, "POST /users/logout", 200) =>
         LET id == req[s].user._id
             T == req[s].token
         IN  /\ DOMAIN users' = DOMAIN users
             /\ TokenSet(users'[id].tokens) = TokenSet(users[id].tokens) \ {T}
             /\ \A other \in DOMAIN users \ {id} : users'[other] = users[other]
             /\ \A token \in issued :
                  (token # T /\ Accepted(token)) =>
                    /\ token \in TokenSet(users'[token._id].tokens)
                    /\ AuthAccepts(users', now', <<token>>)]_vars

\* A logout has just succeeded; its token is rejected, and another token of
\* the same user and a token of another user are accepted
C25_Witness ==
  /\ last.route = "POST /users/logout"
  /\ last.status = 200
  /\ \E r \in revoked, mine \in issued, theirs \in issued :
       /\ r.by = "logout"
       /\ ~Accepted(r.token)
       /\ mine._id = r.token._id
       /\ mine # r.token
       /\ Accepted(mine)
       /\ theirs._id # r.token._id
       /\ Accepted(theirs)

\* C26, as stated: the stored password changes only when the password is
\* changed.  A step changes a user's stored hash only if it is a PATCH
\* /users/me with a password that returns success; after every step, login
\* with the password the user set last succeeds; and after a PATCH that set
\* a different password, login with the old one fails.
C26_HashedOncePerPasswordChange ==
  [][\A id \in DOMAIN users \cap DOMAIN users' :
       /\ users'[id].password # users[id].password =>
            /\ last'.route = "PATCH /users/me"
            /\ last'.status = 200
            /\ "password" \in DOMAIN last'.params.body
       /\ id \in findByCredentials(users', users'[id].email, passwords'[id])
       /\ passwords'[id] # passwords[id] =>
            id \notin findByCredentials(users', users'[id].email, passwords[id])]_vars

\* C27, as stated: a new user is persisted with an empty token set whatever
\* the signup body contains, and when the signup returns success the user's
\* token set consists of exactly the one token returned in the response.
C27_NewUserHasOnlyTheReturnedToken ==
  [][/\ \A id \in DOMAIN users' \ DOMAIN users : users'[id].tokens = <<>>
     /\ \A s \in Slots :
          Answers(s, "POST /users/signup", 201) =>
            users'[req[s].user._id].tokens = <<last'.body.token>>]_vars

\* C28, as stated: signup is all-or-nothing.  Whenever POST /users/signup
\* responds with 400, no user record for that request is in the store, also
\* when the failure happens in the token issuance after the first save of
\* the user.
C28_RefusedSignupStoresNothing ==
  [][/\ (last'.route = "POST /users/signup" /\ last'.status = 400
         /\ \A s \in Slots : ~IssuesIn(s)) => users' = users
     /\ \A s \in Slots :
          (IssuesIn(s) /\ last'.route = "POST /users/signup" /\ last'.status = 400)
            => req[s].user._id \notin DOMAIN users']_vars

\* C29: PATCH /users/me leaves the token sets alone.  Whatever the request
\* answers, every user's stored token set is after it what it was before,
\* and the guard accepts exactly the tokens it accepted before: changing the
\* name, the email or the password neither adds nor revokes a session.
C29_PatchMeKeepsTokens ==
  [][\A s \in Slots :
       (req[s] # Idle /\ req'[s] = Idle /\ last'.route = "PATCH /users/me") =>
         /\ DOMAIN users' = DOMAIN users
         /\ \A id \in DOMAIN users : users'[id].tokens = users[id].tokens
         /\ \A token \in issued :
              Accepted(token) <=> AuthAccepts(users', now', <<token>>)]_vars

\* A PATCH /users/me has just changed the caller's password, and a token
\* issued to the caller before it is accepted
C29_Witness ==
  /\ last.route = "PATCH /users/me"
  /\ last.status = 200
  /\ "password" \in DOMAIN last.params.body
  /\ last.body._id \in DOMAIN users
  /\ bcryptCompare(Trim(last.params.body.password), users[last.body._id].password)
  /\ \E token \in issued : token._id = last.body._id /\ Accepted(token)

\* C30: a deleted task stays deleted.  When DELETE /tasks/:id returns
\* success the task is out of the store; an id that has been handed out and
\* is no longer stored is never stored again; and the save of a PATCH
\* /tasks/:id that loaded the task before it was deleted is answered with an
\* error, not with success, and writes nothing.
C30_DeletedTaskStaysDeleted ==
  [][/\ \A s \in Slots :
          Answers(s, "DELETE /tasks/:id", 200) => last'.params.id \notin DOMAIN tasks'
     /\ \A id \in 1..nTasks : id \notin DOMAIN tasks => id \notin DOMAIN tasks'
     /\ \A s \in Slots :
          (req[s] # Idle /\ req[s].pc = "patchTask" /\ req'[s] = Idle
           /\ req[s].task._id \notin DOMAIN tasks)
            => /\ last'.route = "PATCH /tasks/:id"
               /\ last'.status = 400
               /\ tasks' = tasks]_vars

\* A PATCH /tasks/:id whose task was deleted between its lookup and its save
\* has been answered with an error, and the task is not stored
C30_Witness ==
  /\ last.route = "PATCH /tasks/:id"
  /\ last.status = 400
  /\ last.body = [error |-> "DocumentNotFoundError"]
  /\ last.params.id \in 1..nTasks
  /\ last.params.id \notin DOMAIN tasks

====
